---- MODULE Spec2Model ----
(***************************************************************************)
(* One-dimensional finite element solver `fem` of the notebook             *)
(* "Lecture 13 - LH - LAB - Lax Milgram and Cea's Lemma".                  *)
(*                                                                         *)
(* Floating point numbers are modelled as exact extended rationals         *)
(* <<num, den>>: den > 0 is a finite value in lowest terms, <<1,0>> and    *)
(* <<-1,0>> are +inf and -inf, <<0,0>> is NaN.  Rounding is not modelled.  *)
(* Arrays are functions on 0-based index ranges, as in the source.         *)
(***************************************************************************)
EXTENDS Integers, Sequences, FiniteSets, TLC

VARIABLES pc, M, degree, a, b, exact_function, rhs_function,
          n_quadrature_points, N, ref_vertices, vertices, q, w,
          Vq, Vprimeq, Bq, Bprimeq, P, Q, JxW, Xq, JxWq,
          stiffness_matrix, rhs, u, error, result, failure, built, ns_t,
          alpha, point, value, rhs_function_at, exact_function_at

vars == <<pc, M, degree, a, b, exact_function, rhs_function,
          n_quadrature_points, N, ref_vertices, vertices, q, w,
          Vq, Vprimeq, Bq, Bprimeq, P, Q, JxW, Xq, JxWq,
          stiffness_matrix, rhs, u, error, result, failure, built, ns_t,
          alpha, point, value, rhs_function_at, exact_function_at>>

inputs == <<M, degree, a, b, exact_function, rhs_function>>

locals == <<n_quadrature_points, N, ref_vertices, vertices, q, w,
            Vq, Vprimeq, Bq, Bprimeq, P, Q, JxW, Xq, JxWq,
            stiffness_matrix, rhs, u, error>>

(* the points at which the current call has evaluated the two functions it is given *)
calls == <<rhs_function_at, exact_function_at>>

(* a single evaluation of a reference basis function: local index, support point,
   value (used by SpecBasis only) *)
probe == <<alpha, point, value>>

----------------------------------------------------------------------------
(* Bounds of the explored calls. *)
MaxM == 3
MaxDegree == 2
MaxDofs == 10
MaxBasisDegree == 6

----------------------------------------------------------------------------
(* Extended rational arithmetic standing for numpy's float64 arithmetic. *)

Abs(x) == IF x < 0 THEN -x ELSE x

Sgn(x) == IF x < 0 THEN -1 ELSE IF x > 0 THEN 1 ELSE 0

RECURSIVE GCD(_, _)
GCD(x, y) == IF y = 0 THEN x ELSE GCD(y, x % y)

Norm(n, d) ==
    IF d = 0 THEN <<Sgn(n), 0>>
    ELSE LET g == GCD(Abs(n), Abs(d))
             s == IF d < 0 THEN -1 ELSE 1
         IN  <<s * (n \div g), s * (d \div g)>>

Rat(n) == <<n, 1>>
Zero == <<0, 1>>
One == <<1, 1>>
NaN == <<0, 0>>

IsFinite(x) == x[2] # 0
IsNaN(x) == x = NaN

RNeg(x) == <<-x[1], x[2]>>

RAdd(x, y) ==
    IF IsFinite(x) /\ IsFinite(y)
    THEN LET g == GCD(x[2], y[2])
         IN  Norm(x[1] * (y[2] \div g) + y[1] * (x[2] \div g), x[2] * (y[2] \div g))
    ELSE IF IsNaN(x) \/ IsNaN(y) THEN NaN
    ELSE IF IsFinite(x) THEN y
    ELSE IF IsFinite(y) THEN x
    ELSE IF x = y THEN x ELSE NaN

RSub(x, y) == RAdd(x, RNeg(y))

RMul(x, y) ==
    IF IsFinite(x) /\ IsFinite(y)
    THEN LET g1 == GCD(Abs(x[1]), y[2])
             g2 == GCD(Abs(y[1]), x[2])
         IN  <<(x[1] \div g1) * (y[1] \div g2), (x[2] \div g2) * (y[2] \div g1)>>
    ELSE Norm(x[1] * y[1], x[2] * y[2])

RInv(x) == Norm(x[2], x[1])

RDiv(x, y) == RMul(x, RInv(y))

(* IEEE comparison: NaN is equal to nothing, itself included. *)
REq(x, y) == ~IsNaN(x) /\ x = y

RLess(x, y) ==
    /\ ~IsNaN(x) /\ ~IsNaN(y) /\ x # y
    /\ IF IsFinite(x) /\ IsFinite(y) THEN x[1] * y[2] < y[1] * x[2]
       ELSE IF IsFinite(x) THEN y[1] > 0
       ELSE x[1] < 0

(* Sum and product of f[lo], ..., f[hi]. *)
RECURSIVE RSum(_, _, _)
RSum(f, lo, hi) == IF hi < lo THEN Zero ELSE RAdd(RSum(f, lo, hi - 1), f[hi])

RECURSIVE RProd(_, _, _)
RProd(f, lo, hi) == IF hi < lo THEN One ELSE RMul(RProd(f, lo, hi - 1), f[hi])

AllFinite1(v) == \A i \in DOMAIN v : IsFinite(v[i])
AllFinite2(m) == \A i \in DOMAIN m : AllFinite1(m[i])

----------------------------------------------------------------------------
(* numpy helpers used by the source. *)

(* zeros(shape) *)
zeros1(n0) == [i \in 0..(n0 - 1) |-> Zero]
zeros2(n0, n1) == [i \in 0..(n0 - 1) |-> zeros1(n1)]
zeros3(n0, n1, n2) == [i \in 0..(n0 - 1) |-> zeros2(n1, n2)]

(* linspace(start, stop, num) for num >= 0: num samples, the last one set to stop. *)
linspace(start, stop, num) ==
    LET delta == RSub(stop, start)
        div == num - 1
        step == RDiv(delta, Rat(div))
    IN  [i \in 0..(num - 1) |->
            IF div > 0 /\ i = num - 1 THEN stop
            ELSE IF div > 0 THEN RAdd(RMul(Rat(i), step), start)
            ELSE RAdd(RMul(Rat(i), delta), start)]

(* numpy.polynomial.legendre.leggauss(n): n nodes on [-1,1], symmetric about 0,
   with positive weights of sum 2, exact for the products of two basis functions
   and of two basis derivatives (degree <= 2*degree = n-1).  The Gauss-Legendre
   nodes are irrational; the rational Newton-Cotes rule on the n equally spaced
   nodes -1 + 2i/(n-1) (Simpson, Boole, the 7-point rule), which has those
   properties, stands for it.  Its nodes include -1 and 1, the Gauss nodes do not,
   and it is less exact than the Gauss rule (degree n instead of 2n-1): nothing
   below relies on either. *)
NewtonCotes(n) ==
    CASE n = 3 -> [c |-> <<1, 4, 1>>, den |-> 3]
      [] n = 5 -> [c |-> <<7, 32, 12, 32, 7>>, den |-> 45]
      [] n = 7 -> [c |-> <<41, 216, 27, 272, 27, 216, 41>>, den |-> 420]
      [] OTHER -> [c |-> [i \in 1..n |-> IF i = 1 \/ i = n THEN 1 ELSE 2], den |-> n - 1]

leggauss(n) ==
    [nodes   |-> [i \in 0..(n - 1) |-> Norm(2 * i - (n - 1), n - 1)],
     weights |-> [i \in 0..(n - 1) |-> Norm(NewtonCotes(n).c[i + 1], NewtonCotes(n).den)]]

(* The functions a caller passes as exact_function and rhs_function. *)
ExactFunctions == {"lin", "sq"}
RhsFunctions == {"zero", "lin"}

Apply(fn, x) ==
    CASE fn = "zero" -> Zero
      [] fn = "lin"  -> RAdd(RMul(Rat(2), x), One)
      [] fn = "sq"   -> RMul(x, x)

(* fn(x) on an array x *)
ApplyAll(fn, x) == [r \in DOMAIN x |-> Apply(fn, x[r])]

----------------------------------------------------------------------------
(* The helpers of the second code cell. *)

Len0(v) == Cardinality(DOMAIN v)

(* the two assertions of mapping and of mapping_J *)
mapping_assert(qv, i) == i < Len0(qv) - 1 /\ i >= 0

(* mapping(q, i)(x) *)
mapping(qv, i, x) == RAdd(qv[i], RMul(x, RSub(qv[i + 1], qv[i])))

(* mutant of mapping_J: the width of the reference element *)
mapping_J_Reference(qv, i) == One

(* mapping_J(q, i) *)
mapping_J(qv, i) == RSub(qv[i + 1], qv[i])

(* the two assertions of lagrange_basis *)
lagrange_basis_assert(qv, i) == i < Len0(qv) /\ i >= 0

(* mutant of lagrange_basis: the denominators taken as q[j]-q[i] *)
lagrange_basis_flipped(qv, i, x) ==
    LET factor == [j \in DOMAIN qv |->
                      IF i # j THEN RDiv(RSub(x, qv[j]), RSub(qv[j], qv[i])) ELSE One]
    IN  RProd(factor, 0, Len0(qv) - 1)

(* lagrange_basis(q, i)(x) *)
lagrange_basis(qv, i, x) ==
    LET factor == [j \in DOMAIN qv |->
                      IF i # j THEN RDiv(RSub(x, qv[j]), RSub(qv[i], qv[j])) ELSE One]
    IN  RProd(factor, 0, Len0(qv) - 1)

(* lagrange_basis_derivative(q, i)(x): the first derivative in t of the product
   lagrange_basis(q, i)(t), as sympy's diff forms it by the product rule,
   evaluated at x (np_lambdify evaluates it at every entry of its argument, also
   when it is a constant expression). *)
lagrange_basis_derivative(qv, i, x) ==
    LET term == [m \in DOMAIN qv |->
                    IF m = i THEN Zero
                    ELSE LET factor == [j \in DOMAIN qv |->
                                 IF j = i THEN One
                                 ELSE IF j = m THEN RInv(RSub(qv[i], qv[j]))
                                 ELSE RDiv(RSub(x, qv[j]), RSub(qv[i], qv[j]))]
                         IN  RProd(factor, 0, Len0(qv) - 1)]
    IN  RSum(term, 0, Len0(qv) - 1)

----------------------------------------------------------------------------
(* The steps of fem. *)

(* q = (q+1)/2 *)
RescaleNodes(nodes) == [i \in DOMAIN nodes |-> RDiv(RAdd(nodes[i], One), Rat(2))]

(* w = w/2 *)
RescaleWeights(weights) == [i \in DOMAIN weights |-> RDiv(weights[i], Rat(2))]

(* mutant of DegreeAssert: degree 0 let through *)
DegreeAssert_NonNegative(d) == d >= 0

(* assert degree > 0 *)
DegreeAssert(d) == d > 0

(* N = M*degree+1 *)
(* mutant of NumberOfDofs: the last vertex not counted *)
NumberOfDofs_NoEnd(m, d) == m * d

NumberOfDofs(m, d) == m * d + 1

(* n_quadrature_points = 2*degree+1 *)
NumberOfQuadraturePoints(d) == 2 * d + 1

(* mutants of NumberingRow: elements that share no index; a shifted start *)
NumberingRow_Disjoint(k, d) ==
    LET start == k * (d + 1)
    IN  [al \in 0..d |-> start + al]

NumberingRow_Shifted(k, d) ==
    LET start == k * d + 1
    IN  [al \in 0..d |-> start + al]

NumberingRow_UnitStride(k, d) ==
    LET start == k
    IN  [al \in 0..d |-> start + al]

(* P[k] = array(range(start, start+degree+1)) with start = k*degree *)
NumberingRow(k, d) ==
    LET start == k * d
    IN  [al \in 0..d |-> start + al]

(* P after the loop over the elements *)
Numbering(m, d) == [k \in 0..(m - 1) |-> NumberingRow(k, d)]

(* P.max() of a non-empty table *)
PMax(p) ==
    LET entries == {p[k][al] : k \in DOMAIN p, al \in 0..(Len0(p[0]) - 1)}
    IN  CHOOSE x \in entries : \A y \in entries : y <= x

(* Bq[k,:,P[k]] = table.T for one element k: entry [j][P[k][al]] takes table[j][al] *)
ScatterColumns(old, prow, table, d) ==
    [j \in DOMAIN old |->
        [i \in DOMAIN old[j] |->
            IF \E al \in 0..d : prow[al] = i
            THEN LET al == CHOOSE x \in 0..d :
                               prow[x] = i /\ \A y \in 0..d : prow[y] = i => y <= x
                 IN  table[j][al]
            ELSE old[j][i]]]

(* the loop filling Bq *)
FillBq(old, p, vq, d) ==
    [k \in DOMAIN old |-> ScatterColumns(old[k], p[k], vq, d)]

(* mutant of FillBprimeq: the division by mapping_J(vertices,k) forgotten *)
FillBprimeq_NoJacobian(old, p, vprimeq, verts, d) ==
    [k \in DOMAIN old |-> ScatterColumns(old[k], p[k], vprimeq, d)]

(* the loop filling Bprimeq: Vprimeq.T/mapping_J(vertices,k) *)
FillBprimeq(old, p, vprimeq, verts, d) ==
    [k \in DOMAIN old |->
        ScatterColumns(old[k], p[k],
                       [j \in DOMAIN vprimeq |->
                           [al \in 0..d |-> RDiv(vprimeq[j][al], mapping_J(verts, k))]],
                       d)]

(* X.flatten() of an m x n table *)
flatten(X, m, n) == [r \in 0..(m * n - 1) |-> X[r \div n][r % n]]

(* X.reshape((m*n, -1)) of an m x n x c table *)
reshape(X, m, n) == [r \in 0..(m * n - 1) |-> X[r \div n][r % n]]

(* einsum('qi,qj,q', X, Y, W) *)
einsum_qi_qj_q(X, Y, W) ==
    [i \in DOMAIN X[0] |->
        [j \in DOMAIN Y[0] |->
            RSum([qq \in DOMAIN W |-> RMul(RMul(X[qq][i], Y[qq][j]), W[qq])],
                 0, Len0(W) - 1)]]

(* einsum('qi,q,q', X, v, W) *)
einsum_qi_q_q(X, v, W) ==
    [i \in DOMAIN X[0] |->
        RSum([qq \in DOMAIN W |-> RMul(RMul(X[qq][i], v[qq]), W[qq])], 0, Len0(W) - 1)]

(* einsum('q,q', x, y) *)
einsum_q_q(x, y) ==
    RSum([qq \in DOMAIN x |-> RMul(x[qq], y[qq])], 0, Len0(x) - 1)

(* X.dot(v) *)
dot(X, v) ==
    [r \in DOMAIN X |-> RSum([i \in DOMAIN v |-> RMul(X[r][i], v[i])], 0, Len0(v) - 1)]

(* stiffness_matrix[0,:] = stiffness_matrix[-1,:] = 0
   stiffness_matrix[0,0] = stiffness_matrix[-1,-1] = 1 *)
(* mutant of ZeroRows: row 1 zeroed in place of row 0 *)
ZeroRows_OffByOne(A, last) ==
    [i \in DOMAIN A |-> IF i = 1 \/ i = last THEN [j \in DOMAIN A[i] |-> Zero] ELSE A[i]]

(* mutant of ZeroRows: the boundary columns are zeroed as well *)
ZeroRows_AndColumns(A, last) ==
    [i \in DOMAIN A |->
        [j \in DOMAIN A[i] |->
            IF i = 0 \/ i = last \/ j = 0 \/ j = last THEN Zero ELSE A[i][j]]]

ZeroRows(A, last) ==
    [i \in DOMAIN A |-> IF i = 0 \/ i = last THEN [j \in DOMAIN A[i] |-> Zero] ELSE A[i]]

UnitDiagonal(A, last) ==
    [i \in DOMAIN A |->
        IF i = 0 \/ i = last
        THEN [j \in DOMAIN A[i] |-> IF j = i THEN One ELSE A[i][j]]
        ELSE A[i]]

(* mutant of BoundaryRows: the last row forgotten *)
BoundaryRows_FirstOnly(A) == UnitDiagonal(ZeroRows(A, 0), 0)

BoundaryRows(A) == UnitDiagonal(ZeroRows(A, Len0(A) - 1), Len0(A) - 1)

(* rhs[0] = exact_function(a); rhs[-1] = exact_function(b) *)
SetEntry(f, at, x) == [i \in DOMAIN f |-> IF i = at THEN x ELSE f[i]]

(* mutant of BoundaryValues: both ends take exact_function(a) *)
BoundaryValues_SameEnd(f, ef, lo, hi) ==
    SetEntry(SetEntry(f, 0, Apply(ef, Rat(lo))), Len0(f) - 1, Apply(ef, Rat(lo)))

BoundaryValues(f, ef, lo, hi) ==
    SetEntry(SetEntry(f, 0, Apply(ef, Rat(lo))), Len0(f) - 1, Apply(ef, Rat(hi)))

(* linalg.solve(A, f) on a finite system: Gauss-Jordan elimination of the
   augmented matrix; <<>> when a column has no pivot (LinAlgError: singular). *)
RowSub(src, factor, prow) ==
    [j \in DOMAIN src |-> RSub(src[j], RMul(factor, prow[j]))]

RowScale(row, piv) == [j \in DOMAIN row |-> RDiv(row[j], piv)]

EliminateColumn(aug, c, p, prow) ==
    [r \in DOMAIN aug |->
        IF r = c THEN prow
        ELSE IF r = p THEN RowSub(aug[c], aug[c][c], prow)
        ELSE RowSub(aug[r], aug[r][c], prow)]

(* the first row at or below c with a non-zero entry in column c; -1 when none *)
PivotRow(aug, c, n) ==
    LET cand == {r \in c..(n - 1) : aug[r][c] # Zero}
    IN  IF cand = {} THEN -1 ELSE CHOOSE r \in cand : \A t \in cand : r <= t

(* one column: <<>> stays <<>>.  The set { ... : x \in {e}} makes TLC evaluate e
   once and bind its value. *)
EliminateStep(aug, c, n) ==
    IF aug = <<>> \/ PivotRow(aug, c, n) = -1 THEN <<>>
    ELSE CHOOSE y \in {EliminateColumn(aug, c, PivotRow(aug, c, n), prow) :
                          prow \in {RowScale(aug[PivotRow(aug, c, n)],
                                             aug[PivotRow(aug, c, n)][c])}} : TRUE

RECURSIVE Eliminate(_, _, _)
Eliminate(aug, c, n) ==
    IF c = n THEN aug
    ELSE CHOOSE y \in {Eliminate(x, c + 1, n) : x \in {EliminateStep(aug, c, n)}} : TRUE

Augmented(A, f, n) ==
    [r \in 0..(n - 1) |-> [j \in 0..n |-> IF j < n THEN A[r][j] ELSE f[r]]]

LastColumn(red, n) ==
    IF red = <<>> THEN <<>> ELSE [i \in 0..(n - 1) |-> red[i][n]]

solve(A, f) == LastColumn(Eliminate(Augmented(A, f, Len0(f)), 0, Len0(f)), Len0(f))

(* sqrt(x): NaN for a negative or NaN argument, else the root of x, kept as its
   radicand *)
sqrt(x) ==
    IF IsNaN(x) \/ RLess(x, Zero) THEN [nan |-> TRUE, radicand |-> Zero]
    ELSE [nan |-> FALSE, radicand |-> x]

(* error = sqrt(einsum('q,q', (Bq.dot(u)-exact_function(Xq))**2, JxWq)) *)
Square(x) == RMul(x, x)

SquaredDifference(uh, ef, xq) ==
    [r \in DOMAIN xq |-> Square(RSub(uh[r], Apply(ef, xq[r])))]

(* mutant of L2Error: the quadrature weights forgotten *)
L2Error_Unweighted(bq, uu, ef, xq, jxwq) ==
    sqrt(einsum_q_q(SquaredDifference(dot(bq, uu), ef, xq), [r \in DOMAIN jxwq |-> One]))

L2Error(bq, uu, ef, xq, jxwq) ==
    sqrt(einsum_q_q(SquaredDifference(dot(bq, uu), ef, xq), jxwq))

(* the entries of an array, as a set *)
Entries(x) == {x[r] : r \in DOMAIN x}

(* mutant of RhsPoints: the reference nodes, not their images in the elements *)
RhsPoints_Unmapped(xq, qref) == [r \in DOMAIN xq |-> qref[r % Len0(qref)]]

(* line 177: the array rhs_function is applied to *)
RhsPoints(xq, qref) == xq

(* lines 178-179: the two points exact_function is applied to *)
BoundaryPoints(lo, hi) == {Rat(lo), Rat(hi)}

----------------------------------------------------------------------------
(* The state: one call of fem at a time, made from the notebook's top level. *)

Unset == <<>>
NoValue == [set |-> FALSE, nan |-> FALSE, radicand |-> Zero]
Value(v) == [set |-> TRUE, nan |-> v.nan, radicand |-> v.radicand]

MValues == -2..MaxM
DegreeValues == -1..MaxDegree
EndpointValues == {0, 1, 2}

LocalsUnset ==
    /\ n_quadrature_points = 0 /\ N = 0
    /\ ref_vertices = Unset /\ vertices = Unset /\ q = Unset /\ w = Unset
    /\ Vq = Unset /\ Vprimeq = Unset /\ Bq = Unset /\ Bprimeq = Unset
    /\ P = Unset /\ Q = Unset /\ JxW = Unset /\ Xq = Unset /\ JxWq = Unset
    /\ stiffness_matrix = Unset /\ rhs = Unset /\ u = Unset
    /\ error = NoValue

Init ==
    /\ pc = "idle"
    /\ M = 0 /\ degree = 0 /\ a = 0 /\ b = 0
    /\ exact_function = "lin" /\ rhs_function = "zero"
    /\ LocalsUnset
    /\ result = NoValue
    /\ failure = "none"
    /\ built = {}
    /\ ns_t = "unbound"
    /\ alpha = 0 /\ point = 0 /\ value = Zero
    /\ rhs_function_at = {} /\ exact_function_at = {}

(* the frame of a call is created fresh *)
FreshLocals ==
    /\ n_quadrature_points' = 0 /\ N' = 0
    /\ ref_vertices' = Unset /\ vertices' = Unset /\ q' = Unset /\ w' = Unset
    /\ Vq' = Unset /\ Vprimeq' = Unset /\ Bq' = Unset /\ Bprimeq' = Unset
    /\ P' = Unset /\ Q' = Unset /\ JxW' = Unset /\ Xq' = Unset /\ JxWq' = Unset
    /\ stiffness_matrix' = Unset /\ rhs' = Unset /\ u' = Unset
    /\ error' = NoValue
    /\ built' = {}

(* raise: the exception leaves fem at the next step *)
Raise(kind) == pc' = "raise" /\ failure' = kind

(* fem(M, exact_function, rhs_function, degree, a, b) is called *)
Call ==
    /\ UNCHANGED <<probe, calls>>
    /\ pc = "idle"
    /\ \E m \in MValues, d \in DegreeValues, lo \in EndpointValues, hi \in EndpointValues,
          ef \in ExactFunctions, rf \in RhsFunctions :
          /\ NumberOfDofs(m, d) <= MaxDofs
          /\ M' = m /\ degree' = d /\ a' = lo /\ b' = hi
          /\ exact_function' = ef /\ rhs_function' = rf
    /\ FreshLocals
    /\ result' = NoValue
    /\ failure' = "none"
    /\ pc' = "assert_degree"
    /\ UNCHANGED ns_t

(* line 117 *)
AssertDegree ==
    /\ UNCHANGED <<probe, calls>>
    /\ pc = "assert_degree"
    /\ IF DegreeAssert(degree)
       THEN pc' = "setup" /\ UNCHANGED failure
       ELSE Raise("AssertionError")
    /\ UNCHANGED <<inputs, locals, result, built, ns_t>>

(* lines 121-130; linspace raises ValueError for a negative number of samples *)
Setup ==
    /\ UNCHANGED <<probe, calls>>
    /\ pc = "setup"
    /\ n_quadrature_points' = NumberOfQuadraturePoints(degree)
    /\ N' = NumberOfDofs(M, degree)
    /\ ref_vertices' = linspace(Zero, One, degree + 1)
    /\ IF M + 1 < 0
       THEN /\ Raise("ValueError")
            /\ built' = built \cup {"n_quadrature_points", "N", "ref_vertices"}
            /\ UNCHANGED vertices
       ELSE /\ vertices' = linspace(Rat(a), Rat(b), M + 1)
            /\ built' = built \cup {"n_quadrature_points", "N", "ref_vertices", "vertices"}
            /\ pc' = "quadrature" /\ UNCHANGED failure
    /\ UNCHANGED <<inputs, q, w, Vq, Vprimeq, Bq, Bprimeq, P, Q, JxW, Xq, JxWq,
                   stiffness_matrix, rhs, u, error, result, ns_t>>

(* lines 133-135 *)
Quadrature ==
    /\ UNCHANGED <<probe, calls>>
    /\ pc = "quadrature"
    /\ q' = RescaleNodes(leggauss(n_quadrature_points).nodes)
    /\ w' = RescaleWeights(leggauss(n_quadrature_points).weights)
    /\ built' = built \cup {"q", "w"}
    /\ pc' = "basis"
    /\ UNCHANGED <<inputs, n_quadrature_points, N, ref_vertices, vertices,
                   Vq, Vprimeq, Bq, Bprimeq, P, Q, JxW, Xq, JxWq,
                   stiffness_matrix, rhs, u, error, result, failure, ns_t>>

(* lines 138-139; every call of lagrange_basis_derivative runs sym.var('t'),
   which binds the name t in the global namespace of the notebook (lines 101-103) *)
EvalBasis ==
    /\ UNCHANGED <<probe, calls>>
    /\ pc = "basis"
    /\ IF \A i \in 0..degree : lagrange_basis_assert(ref_vertices, i)
       THEN /\ Vq' = [j \in DOMAIN q |->
                         [i \in 0..degree |-> lagrange_basis(ref_vertices, i, q[j])]]
            /\ Vprimeq' = [j \in DOMAIN q |->
                         [i \in 0..degree |-> lagrange_basis_derivative(ref_vertices, i, q[j])]]
            /\ built' = built \cup {"Vq", "Vprimeq"}
            /\ ns_t' = "Symbol"
            /\ pc' = "allocate" /\ UNCHANGED failure
       ELSE /\ Raise("AssertionError")
            /\ UNCHANGED <<Vq, Vprimeq, built, ns_t>>
    /\ UNCHANGED <<inputs, n_quadrature_points, N, ref_vertices, vertices, q, w,
                   Bq, Bprimeq, P, Q, JxW, Xq, JxWq,
                   stiffness_matrix, rhs, u, error, result>>

(* lines 141-147; zeros raises ValueError for a negative dimension *)
Allocate ==
    /\ UNCHANGED <<probe, calls>>
    /\ pc = "allocate"
    /\ IF M < 0 \/ N < 0
       THEN /\ Raise("ValueError")
            /\ UNCHANGED <<Bq, Bprimeq, P, built>>
       ELSE /\ Bq' = zeros3(M, n_quadrature_points, N)
            /\ Bprimeq' = zeros3(M, n_quadrature_points, N)
            /\ P' = [k \in 0..(M - 1) |-> [al \in 0..degree |-> 0]]
            /\ built' = built \cup {"Bq", "Bprimeq", "P"}
            /\ pc' = "numbering" /\ UNCHANGED failure
    /\ UNCHANGED <<inputs, n_quadrature_points, N, ref_vertices, vertices, q, w,
                   Vq, Vprimeq, Q, JxW, Xq, JxWq,
                   stiffness_matrix, rhs, u, error, result, ns_t>>

(* lines 149-151 *)
BuildNumbering ==
    /\ UNCHANGED <<probe, calls>>
    /\ pc = "numbering"
    /\ P' = Numbering(M, degree)
    /\ pc' = "assert_pmax"
    /\ UNCHANGED <<inputs, n_quadrature_points, N, ref_vertices, vertices, q, w,
                   Vq, Vprimeq, Bq, Bprimeq, Q, JxW, Xq, JxWq,
                   stiffness_matrix, rhs, u, error, result, failure, built, ns_t>>

(* line 153; max of an empty array raises ValueError *)
AssertPMax ==
    /\ UNCHANGED <<probe, calls>>
    /\ pc = "assert_pmax"
    /\ IF M = 0 THEN Raise("ValueError")
       ELSE IF PMax(P) = N - 1 THEN pc' = "transport" /\ UNCHANGED failure
       ELSE Raise("AssertionError")
    /\ UNCHANGED <<inputs, locals, result, built, ns_t>>

(* lines 157-158 *)
Transport ==
    /\ UNCHANGED <<probe, calls>>
    /\ pc = "transport"
    /\ IF \A k \in 0..(M - 1) : mapping_assert(vertices, k)
       THEN /\ Q' = [k \in 0..(M - 1) |-> [j \in DOMAIN q |-> mapping(vertices, k, q[j])]]
            /\ JxW' = [k \in 0..(M - 1) |->
                          [j \in DOMAIN w |-> RMul(mapping_J(vertices, k), w[j])]]
            /\ built' = built \cup {"Q", "JxW"}
            /\ pc' = "fill" /\ UNCHANGED failure
       ELSE /\ Raise("AssertionError")
            /\ UNCHANGED <<Q, JxW, built>>
    /\ UNCHANGED <<inputs, n_quadrature_points, N, ref_vertices, vertices, q, w,
                   Vq, Vprimeq, Bq, Bprimeq, P, Xq, JxWq,
                   stiffness_matrix, rhs, u, error, result, ns_t>>

(* lines 162-169 *)
FillTables ==
    /\ UNCHANGED <<probe, calls>>
    /\ pc = "fill"
    /\ Bq' = reshape(FillBq(Bq, P, Vq, degree), M, n_quadrature_points)
    /\ Bprimeq' = reshape(FillBprimeq(Bprimeq, P, Vprimeq, vertices, degree),
                          M, n_quadrature_points)
    /\ Xq' = flatten(Q, M, n_quadrature_points)
    /\ JxWq' = flatten(JxW, M, n_quadrature_points)
    /\ built' = built \cup {"Xq", "JxWq"}
    /\ pc' = "stiffness"
    /\ UNCHANGED <<inputs, n_quadrature_points, N, ref_vertices, vertices, q, w,
                   Vq, Vprimeq, P, Q, JxW,
                   stiffness_matrix, rhs, u, error, result, failure, ns_t>>

(* line 172 *)
AssembleStiffness ==
    /\ UNCHANGED <<probe, calls>>
    /\ pc = "stiffness"
    /\ stiffness_matrix' = einsum_qi_qj_q(Bprimeq, Bprimeq, JxWq)
    /\ built' = built \cup {"stiffness_matrix"}
    /\ pc' = "stiffness_boundary"
    /\ UNCHANGED <<inputs, n_quadrature_points, N, ref_vertices, vertices, q, w,
                   Vq, Vprimeq, Bq, Bprimeq, P, Q, JxW, Xq, JxWq,
                   rhs, u, error, result, failure, ns_t>>

(* lines 173-174 *)
StiffnessBoundary ==
    /\ UNCHANGED <<probe, calls>>
    /\ pc = "stiffness_boundary"
    /\ stiffness_matrix' = BoundaryRows(stiffness_matrix)
    /\ pc' = "load"
    /\ UNCHANGED <<inputs, n_quadrature_points, N, ref_vertices, vertices, q, w,
                   Vq, Vprimeq, Bq, Bprimeq, P, Q, JxW, Xq, JxWq,
                   rhs, u, error, result, failure, built, ns_t>>

(* line 177 *)
AssembleLoad ==
    /\ UNCHANGED <<probe, exact_function_at>>
    /\ pc = "load"
    /\ rhs' = einsum_qi_q_q(Bq, ApplyAll(rhs_function, RhsPoints(Xq, q)), JxWq)
    /\ rhs_function_at' = rhs_function_at \cup Entries(RhsPoints(Xq, q))
    /\ built' = built \cup {"rhs"}
    /\ pc' = "load_boundary"
    /\ UNCHANGED <<inputs, n_quadrature_points, N, ref_vertices, vertices, q, w,
                   Vq, Vprimeq, Bq, Bprimeq, P, Q, JxW, Xq, JxWq,
                   stiffness_matrix, u, error, result, failure, ns_t>>

(* lines 178-179 *)
LoadBoundary ==
    /\ UNCHANGED <<probe, rhs_function_at>>
    /\ pc = "load_boundary"
    /\ rhs' = BoundaryValues(rhs, exact_function, a, b)
    /\ exact_function_at' = exact_function_at \cup BoundaryPoints(a, b)
    /\ pc' = "solve"
    /\ UNCHANGED <<inputs, n_quadrature_points, N, ref_vertices, vertices, q, w,
                   Vq, Vprimeq, Bq, Bprimeq, P, Q, JxW, Xq, JxWq,
                   stiffness_matrix, u, error, result, failure, built, ns_t>>

(* line 182.  A finite system is solved exactly, or raises LinAlgError when it is
   singular.  On a system with NaN or inf entries LAPACK's pivot search is not
   specified: the call either raises LinAlgError or returns NaN everywhere. *)
Solve ==
    /\ UNCHANGED <<probe, calls>>
    /\ pc = "solve"
    /\ IF AllFinite2(stiffness_matrix) /\ AllFinite1(rhs)
       THEN LET x == solve(stiffness_matrix, rhs)
            IN  IF x = <<>>
                THEN Raise("LinAlgError") /\ UNCHANGED <<u, built>>
                ELSE /\ u' = x
                     /\ built' = built \cup {"u"}
                     /\ pc' = "error" /\ UNCHANGED failure
       ELSE \E raised \in BOOLEAN :
                IF raised
                THEN Raise("LinAlgError") /\ UNCHANGED <<u, built>>
                ELSE /\ u' = [i \in DOMAIN rhs |-> NaN]
                     /\ built' = built \cup {"u"}
                     /\ pc' = "error" /\ UNCHANGED failure
    /\ UNCHANGED <<inputs, n_quadrature_points, N, ref_vertices, vertices, q, w,
                   Vq, Vprimeq, Bq, Bprimeq, P, Q, JxW, Xq, JxWq,
                   stiffness_matrix, rhs, error, result, ns_t>>

(* line 184 *)
ComputeError ==
    /\ UNCHANGED <<probe, rhs_function_at>>
    /\ pc = "error"
    /\ error' = Value(L2Error(Bq, u, exact_function, Xq, JxWq))
    /\ exact_function_at' = exact_function_at \cup Entries(Xq)
    /\ pc' = "return"
    /\ UNCHANGED <<inputs, n_quadrature_points, N, ref_vertices, vertices, q, w,
                   Vq, Vprimeq, Bq, Bprimeq, P, Q, JxW, Xq, JxWq,
                   stiffness_matrix, rhs, u, result, failure, built, ns_t>>

(* line 185: the caller receives error, the frame is discarded *)
Return ==
    /\ UNCHANGED probe
    /\ rhs_function_at' = {} /\ exact_function_at' = {}
    /\ pc = "return"
    /\ result' = error
    /\ FreshLocals
    /\ pc' = "returned"
    /\ UNCHANGED <<inputs, failure, ns_t>>

(* an exception leaves fem: the caller receives no value, the frame is discarded *)
Propagate ==
    /\ UNCHANGED probe
    /\ rhs_function_at' = {} /\ exact_function_at' = {}
    /\ pc = "raise"
    /\ FreshLocals
    /\ pc' = "failed"
    /\ UNCHANGED <<inputs, result, failure, ns_t>>

(* the caller goes on (line 237: the value is stored and the sweep continues;
   after an exception the notebook is free to run a cell again) *)
Continue ==
    /\ UNCHANGED <<probe, calls>>
    /\ pc \in {"returned", "failed"}
    /\ pc' = "idle"
    /\ M' = 0 /\ degree' = 0 /\ a' = 0 /\ b' = 0
    /\ exact_function' = "lin" /\ rhs_function' = "zero"
    /\ result' = NoValue
    /\ failure' = "none"
    /\ UNCHANGED <<locals, built, ns_t>>

Next ==
    \/ Call
    \/ AssertDegree
    \/ Setup
    \/ Quadrature
    \/ EvalBasis
    \/ Allocate
    \/ BuildNumbering
    \/ AssertPMax
    \/ Transport
    \/ FillTables
    \/ AssembleStiffness
    \/ StiffnessBoundary
    \/ AssembleLoad
    \/ LoadBoundary
    \/ Solve
    \/ ComputeError
    \/ Return
    \/ Propagate
    \/ Continue

Spec == Init /\ [][Next]_vars

----------------------------------------------------------------------------
(* The reference basis alone: lagrange_basis on the support points
   linspace(0,1,degree+1) of line 129, evaluated at one support point at a time. *)

InitBasis ==
    /\ pc = "support"
    /\ degree \in 1..MaxBasisDegree
    /\ ref_vertices = linspace(Zero, One, degree + 1)
    /\ M = 0 /\ a = 0 /\ b = 0
    /\ exact_function = "lin" /\ rhs_function = "zero"
    /\ n_quadrature_points = 0 /\ N = 0
    /\ vertices = Unset /\ q = Unset /\ w = Unset
    /\ Vq = Unset /\ Vprimeq = Unset /\ Bq = Unset /\ Bprimeq = Unset
    /\ P = Unset /\ Q = Unset /\ JxW = Unset /\ Xq = Unset /\ JxWq = Unset
    /\ stiffness_matrix = Unset /\ rhs = Unset /\ u = Unset
    /\ error = NoValue /\ result = NoValue
    /\ failure = "none"
    /\ built = {"ref_vertices"}
    /\ ns_t = "unbound"
    /\ alpha = 0 /\ point = 0 /\ value = Zero
    /\ rhs_function_at = {} /\ exact_function_at = {}

(* lagrange_basis(ref_vertices, i)(ref_vertices[j]) *)
EvalAtSupport ==
    /\ pc \in {"support", "evaluated"}
    /\ \E i \in 0..degree, j \in 0..degree :
          /\ lagrange_basis_assert(ref_vertices, i)
          /\ alpha' = i
          /\ point' = j
          /\ value' = lagrange_basis(ref_vertices, i, ref_vertices[j])
    /\ pc' = "evaluated"
    /\ UNCHANGED <<inputs, locals, calls, result, failure, built, ns_t>>

NextBasis == EvalAtSupport

SpecBasis == InitBasis /\ [][NextBasis]_vars

----------------------------------------------------------------------------
(* Properties. *)

(* the call has a numbering table: the loop of lines 149-151 is over *)
NumberingDone ==
    pc \in {"assert_pmax", "transport", "fill", "stiffness", "stiffness_boundary",
            "load", "load_boundary", "solve", "error", "return"}

(* the global indices of element k *)
Owned(k) == {P[k][al] : al \in 0..degree}

(* C1: DOF continuity.  For every M >= 1 and degree >= 1 the numbering table has
   P[k][d] = P[k+1][0] for every k in [0, M-1), and its maximum entry is
   M*d = N-1. *)
C1_DofContinuity ==
    (NumberingDone /\ M >= 1 /\ degree >= 1) =>
        /\ \A k \in 0..(M - 2) : P[k][degree] = P[k + 1][0]
        /\ PMax(P) = M * degree
        /\ N = M * degree + 1
        /\ PMax(P) = N - 1

C1_Witness ==
    /\ NumberingDone /\ M = 3 /\ degree = 2
    /\ P[0][2] = 2 /\ P[1][0] = 2 /\ P[1][2] = 4 /\ P[2][0] = 4

(* C2: element k owns exactly the indices k*d, ..., k*d+d, so two consecutive
   elements share exactly one global index, two others share none, and the
   entries of P are exactly 0..M*d. *)
C2_ElementIndices ==
    (NumberingDone /\ M >= 1 /\ degree >= 1) =>
        /\ \A k \in 0..(M - 1) : \A al \in 0..degree : P[k][al] = k * degree + al
        /\ \A k1 \in 0..(M - 1) : \A k2 \in (k1 + 1)..(M - 1) :
              Cardinality(Owned(k1) \cap Owned(k2)) = IF k2 = k1 + 1 THEN 1 ELSE 0
        /\ UNION {Owned(k) : k \in 0..(M - 1)} = 0..(M * degree)

C2_Witness ==
    /\ NumberingDone /\ M = 3 /\ degree = 2
    /\ Owned(0) \cap Owned(1) = {2}
    /\ Owned(0) \cap Owned(2) = {}
    /\ Owned(2) = {4, 5, 6}

(* the call is over: its caller has a value or an exception *)
CallOver == pc \in {"returned", "failed"}

(* C3: a call with M < 1, or with a >= b, fails and returns no error value. *)
C3_InvalidMeshFails ==
    (CallOver /\ (M < 1 \/ a >= b)) =>
        (pc = "failed" /\ failure # "none" /\ result = NoValue)

(* C4: a call with degree < 1 is rejected by the assertion of line 117, for every
   M, a and b, before any basis, mesh, numbering table or matrix is built, and
   no error value is returned. *)
C4_InvalidDegreeRejected ==
    (pc \notin {"idle", "assert_degree"} /\ degree < 1) =>
        /\ pc \in {"raise", "failed"}
        /\ failure = "AssertionError"
        /\ built = {}
        /\ LocalsUnset
        /\ result = NoValue

C4_Witness ==
    /\ pc = "failed" /\ degree = 0 /\ M = 2 /\ a < b
    /\ failure = "AssertionError" /\ result = NoValue

(* the system handed to linalg.solve: both boundary overwrites are done *)
SystemDone == pc \in {"solve", "error", "return"}

UnitRow(n, at) == [j \in 0..(n - 1) |-> IF j = at THEN One ELSE Zero]

(* C5: for every valid (M, d) the system handed to the solver has rows 0 and N-1
   of A equal to the unit rows e_0 and e_(N-1), f[0] = exact(a) and
   f[N-1] = exact(b); the two rows are distinct since N = M*d+1 >= 2. *)
C5_BoundaryRows ==
    SystemDone =>
        /\ M >= 1 /\ degree >= 1
        /\ N = M * degree + 1 /\ N >= 2
        /\ DOMAIN stiffness_matrix = 0..(N - 1) /\ DOMAIN rhs = 0..(N - 1)
        /\ stiffness_matrix[0] = UnitRow(N, 0)
        /\ stiffness_matrix[N - 1] = UnitRow(N, N - 1)
        /\ rhs[0] = Apply(exact_function, Rat(a))
        /\ rhs[N - 1] = Apply(exact_function, Rat(b))

C5_Witness ==
    /\ pc = "solve" /\ M = 3 /\ degree = 2 /\ a < b
    /\ stiffness_matrix[0][0] = One /\ stiffness_matrix[6][6] = One
    /\ stiffness_matrix[1][0] # Zero /\ stiffness_matrix[0][1] = Zero
    /\ rhs[0] # rhs[6]

(* linalg.solve has returned u *)
Solved == pc \in {"error", "return"}

(* u solves the system: every component of A*u equals that of f *)
Solves(A, x, f) == \A i \in DOMAIN f : REq(dot(A, x)[i], f[i])

(* C6: boundary exactness.  For every valid (M, d) and every exact/rhs pair, a
   vector u that solves the assembled system has u[0] = exact(a) and
   u[N-1] = exact(b). *)
C6_BoundaryExactness ==
    (Solved /\ Solves(stiffness_matrix, u, rhs)) =>
        /\ REq(u[0], Apply(exact_function, Rat(a)))
        /\ REq(u[N - 1], Apply(exact_function, Rat(b)))

C6_Witness ==
    /\ Solved /\ Solves(stiffness_matrix, u, rhs)
    /\ M = 3 /\ degree = 2 /\ a = 0 /\ b = 2 /\ exact_function = "sq"
    /\ u[0] = Zero /\ u[6] = Rat(4)

(* The element-by-element assembly: the contribution of element k to the pair
   (i, j) of its local indices, and to its local index i. *)
LocalStiffness(k, i, j) ==
    RSum([qq \in DOMAIN w |->
             RMul(RMul(RDiv(Vprimeq[qq][i], mapping_J(vertices, k)),
                       RDiv(Vprimeq[qq][j], mapping_J(vertices, k))),
                  JxW[k][qq])],
         0, Len0(w) - 1)

LocalLoad(k, i) ==
    RSum([qq \in DOMAIN w |->
             RMul(RMul(Vq[qq][i], Apply(rhs_function, Q[k][qq])), JxW[k][qq])],
         0, Len0(w) - 1)

(* what the scatter-add through P leaves in A[g1][g2] and in f[g1], starting
   from zero: the sum of the contributions of all (k, i, j) with P[k][i] = g1 and
   P[k][j] = g2 *)
ScatterStiffness(g1, g2) ==
    RSum([k \in 0..(M - 1) |->
             RSum([i \in 0..degree |->
                      RSum([j \in 0..degree |->
                               IF P[k][i] = g1 /\ P[k][j] = g2
                               THEN LocalStiffness(k, i, j) ELSE Zero],
                           0, degree)],
                  0, degree)],
         0, M - 1)

ScatterLoad(g1) ==
    RSum([k \in 0..(M - 1) |->
             RSum([i \in 0..degree |->
                      IF P[k][i] = g1 THEN LocalLoad(k, i) ELSE Zero],
                  0, degree)],
         0, M - 1)

(* C7: before the boundary rows are overwritten, the stiffness matrix and the
   load vector computed as dense sums over all quadrature points of the
   zero-padded tables Bprimeq and Bq equal, entry by entry, the result of the
   element-by-element scatter-add through P.  Stated for a # b, which covers
   every mesh with a < b: with a = b the entries are NaN. *)
C7_DenseEqualsScatterAdd ==
    (a # b) =>
        /\ pc = "stiffness_boundary" =>
              \A g1 \in 0..(N - 1) : \A g2 \in 0..(N - 1) :
                  REq(stiffness_matrix[g1][g2], ScatterStiffness(g1, g2))
        /\ pc = "load_boundary" =>
              \A g1 \in 0..(N - 1) : REq(rhs[g1], ScatterLoad(g1))

C7_Witness ==
    /\ pc = "stiffness_boundary" /\ M = 3 /\ degree = 2 /\ a = 0 /\ b = 2
    /\ stiffness_matrix[2][2] = RAdd(LocalStiffness(0, 2, 2), LocalStiffness(1, 0, 0))
    /\ stiffness_matrix[2][2] # LocalStiffness(0, 2, 2)
    /\ stiffness_matrix[0][0] = LocalStiffness(0, 0, 0)
    /\ stiffness_matrix[0][1] # Zero
    /\ stiffness_matrix[0][3] = Zero

(* the boundary rows of A are overwritten *)
StiffnessDone == pc \in {"load", "load_boundary", "solve", "error", "return"}

Interior(i) == i # 0 /\ i # N - 1

(* C8: after the boundary overwrite A is symmetric except for the two boundary
   rows: A[i][j] = A[j][i] whenever i and j are both outside {0, N-1}, so any
   asymmetry involves row 0 or row N-1; A[0][1] is 0 while A[1][0] keeps its
   assembled value.  Stated for a # b, as C7. *)
C8_SymmetricExceptBoundaryRows ==
    (StiffnessDone /\ a # b) =>
        /\ \A i \in 0..(N - 1) : \A j \in 0..(N - 1) :
              (Interior(i) /\ Interior(j)) =>
                  REq(stiffness_matrix[i][j], stiffness_matrix[j][i])
        /\ N > 2 => /\ stiffness_matrix[0][1] = Zero
                    /\ REq(stiffness_matrix[1][0], ScatterStiffness(1, 0))

C8_Witness ==
    /\ pc = "solve" /\ M = 3 /\ degree = 2 /\ a < b
    /\ stiffness_matrix[2][3] = stiffness_matrix[3][2]
    /\ stiffness_matrix[2][3] # Zero
    /\ stiffness_matrix[0][1] = Zero /\ stiffness_matrix[1][0] # Zero
    /\ stiffness_matrix[6][5] = Zero /\ stiffness_matrix[5][6] # Zero

(* C9: a call of fem, the helpers it calls included, leaves every piece of state
   outside the call unchanged: here the binding of the name t in the global
   namespace of the notebook. *)
C9_NoStateOutsideTheCallChanges == [][ns_t' = ns_t]_vars

(* C10: Lagrange property.  For every degree d >= 1 and local index alpha in
   [0, d], lagrange_basis(ref_vertices, alpha) on the d+1 support points j/d
   evaluates to 1 at support point alpha and to 0 at every other one. *)
C10_LagrangeProperty ==
    (pc = "evaluated") =>
        /\ DOMAIN ref_vertices = 0..degree
        /\ \A j \in 0..degree : ref_vertices[j] = Norm(j, degree)
        /\ value = IF point = alpha THEN One ELSE Zero

C10_Witness ==
    /\ pc = "evaluated" /\ degree = 4 /\ alpha = 2 /\ point = 2 /\ value = One
    /\ ref_vertices[2] = <<1, 2>>

-----------------------------------------------------------------------------
(* the per-element tables have been written and flattened (lines 162-169) *)
TablesFilled == "Xq" \in built

(* the frame of the call is still alive after the step *)
FrameKept == pc' \notin {"returned", "failed", "idle"}

(* the width of element k *)
ElementWidth(k) == RSub(vertices[k + 1], vertices[k])

(* row of the flattened tables holding quadrature node j of element k *)
QuadratureRow(k, j) == k * n_quadrature_points + j

(* C12: within one call the quadrature rule has exactly 2*degree+1 nodes and as
   many weights, whatever M is; the two reference tables Vq and Vprimeq have one
   entry per quadrature node and reference basis function; rule and tables, once
   assigned, are never assigned again while the call runs; and every element k
   uses those same tables: its block of Bq holds Vq, its block of Bprimeq holds
   Vprimeq divided by the element width, its weights are w times the width. *)
C12_RuleAndTables ==
    /\ "q" \in built =>
          /\ n_quadrature_points = 2 * degree + 1
          /\ DOMAIN q = 0..(2 * degree)
          /\ DOMAIN w = 0..(2 * degree)
    /\ "Vq" \in built =>
          /\ DOMAIN Vq = 0..(2 * degree) /\ DOMAIN Vprimeq = 0..(2 * degree)
          /\ \A j \in 0..(2 * degree) :
                DOMAIN Vq[j] = 0..degree /\ DOMAIN Vprimeq[j] = 0..degree
    /\ TablesFilled =>
          \A k \in 0..(M - 1), j \in 0..(2 * degree) :
             /\ JxWq[QuadratureRow(k, j)] = RMul(ElementWidth(k), w[j])
             /\ \A i \in 0..degree :
                   /\ Bq[QuadratureRow(k, j)][P[k][i]] = Vq[j][i]
                   /\ Bprimeq[QuadratureRow(k, j)][P[k][i]]
                         = RDiv(Vprimeq[j][i], ElementWidth(k))

C12_BuiltOnce ==
    FrameKept =>
       /\ "q" \in built => q' = q /\ w' = w
       /\ "Vq" \in built => Vq' = Vq /\ Vprimeq' = Vprimeq

C12_QuadratureBuiltOnceAndReused == []C12_RuleAndTables /\ [][C12_BuiltOnce]_vars

(* three elements of width 1/3 and degree 2 share one rule of 5 nodes *)
C12_Witness ==
    /\ pc = "solve" /\ M = 3 /\ degree = 2 /\ a = 0 /\ b = 1
    /\ Len0(q) = 5 /\ Len0(JxWq) = 15
    /\ Bq[QuadratureRow(2, 1)][P[2][1]] = Vq[1][1]
    /\ Bprimeq[QuadratureRow(2, 1)][P[2][1]] = RMul(Rat(3), Vprimeq[1][1])
    /\ Vprimeq[1][1] # Zero
    /\ JxWq[QuadratureRow(2, 1)] = RDiv(w[1], Rat(3))

-----------------------------------------------------------------------------
(* the elements whose column writes of lines 163-164 reach global index g *)
Contributors(g) == {k \in 0..(M - 1) : g \in Owned(k)}

(* g is the index shared by elements k-1 and k for some 0 < k < M *)
Junction(g) == \E k \in 1..(M - 1) : g = k * degree

(* C13: for every valid (M, degree), a global index g in [0, M*degree] receives
   contributions from exactly two elements, the adjacent k-1 and k, if and only
   if g = k*degree for some 0 < k < M; every other index receives contributions
   from exactly one element, none from more than two; and in the filled tables
   an element has non-zero entries only in the columns it contributes to. *)
C13_ContributingElements ==
    /\ (NumberingDone /\ M >= 1 /\ degree >= 1) =>
          \A g \in 0..(M * degree) :
             /\ Cardinality(Contributors(g)) = IF Junction(g) THEN 2 ELSE 1
             /\ Junction(g) =>
                   Contributors(g) = {(g \div degree) - 1, g \div degree}
    /\ TablesFilled =>
          \A k \in 0..(M - 1), j \in 0..(n_quadrature_points - 1), g \in 0..(N - 1) :
             (Bq[QuadratureRow(k, j)][g] # Zero \/ Bprimeq[QuadratureRow(k, j)][g] # Zero)
                => k \in Contributors(g)

C13_Witness ==
    /\ pc = "stiffness" /\ M = 3 /\ degree = 2 /\ a = 0 /\ b = 1
    /\ Contributors(2) = {0, 1} /\ Contributors(4) = {1, 2}
    /\ Contributors(3) = {1} /\ Contributors(0) = {0} /\ Contributors(6) = {2}
    /\ Bprimeq[QuadratureRow(0, 0)][2] # Zero /\ Bprimeq[QuadratureRow(1, 0)][2] # Zero
    /\ Bprimeq[QuadratureRow(2, 0)][2] = Zero

-----------------------------------------------------------------------------
(* C14: the stiffness matrix changes only in the accumulation step (line 172)
   and then in the boundary step (lines 173-174), the load vector only in the
   accumulation step (line 177) and then in the boundary step (lines 178-179),
   all before the solve, which starts from a system with both boundary steps
   done; a boundary step leaves every row i of A and every entry f[i] with
   0 < i < N-1 as accumulated, columns 0 and N-1 of those rows included. *)
C14_Mutation ==
    /\ (FrameKept /\ stiffness_matrix' # stiffness_matrix) =>
          \/ pc = "stiffness" /\ stiffness_matrix = Unset /\ pc' = "stiffness_boundary"
          \/ pc = "stiffness_boundary"
    /\ (FrameKept /\ rhs' # rhs) =>
          \/ pc = "load" /\ rhs = Unset /\ pc' = "load_boundary"
          \/ pc = "load_boundary"
    /\ pc = "stiffness_boundary" =>
          /\ DOMAIN stiffness_matrix' = 0..(N - 1)
          /\ \A i \in 0..(N - 1) :
                Interior(i) => stiffness_matrix'[i] = stiffness_matrix[i]
    /\ pc = "load_boundary" =>
          /\ DOMAIN rhs' = 0..(N - 1)
          /\ \A i \in 0..(N - 1) : Interior(i) => rhs'[i] = rhs[i]
    /\ (FrameKept /\ u' # u) =>
          /\ pc = "solve"
          /\ stiffness_matrix[0] = UnitRow(N, 0)
          /\ stiffness_matrix[N - 1] = UnitRow(N, N - 1)
          /\ rhs[0] = Apply(exact_function, Rat(a))
          /\ rhs[N - 1] = Apply(exact_function, Rat(b))

C14_BoundaryStepFrame == [][C14_Mutation]_vars

(* the system handed to the solver: boundary rows and entries overwritten,
   interior rows and entries as the scatter-add left them *)
C14_Witness ==
    /\ pc = "solve" /\ M = 3 /\ degree = 2 /\ a = 0 /\ b = 2
    /\ rhs_function = "lin" /\ exact_function = "sq"
    /\ stiffness_matrix[0] = UnitRow(7, 0) /\ stiffness_matrix[6] = UnitRow(7, 6)
    /\ stiffness_matrix[1][0] = ScatterStiffness(1, 0) /\ stiffness_matrix[1][0] # Zero
    /\ stiffness_matrix[5][6] = ScatterStiffness(5, 6) /\ stiffness_matrix[5][6] # Zero
    /\ rhs[0] = Zero /\ rhs[6] = Rat(4)
    /\ rhs[3] = ScatterLoad(3) /\ rhs[3] # Zero

-----------------------------------------------------------------------------
(* u_h at quadrature node j of element k, from the degree+1 coefficients of the
   element: sum_i u[P[k][i]] * B_i(q[j]) *)
LocalReconstruction(k, j) ==
    RSum([i \in 0..degree |-> RMul(u[P[k][i]], Vq[j][i])], 0, degree)

(* the L2 error summed element by element over the quadrature points *)
LocalL2Error ==
    sqrt(RSum([r \in 0..(M * n_quadrature_points - 1) |->
                  RMul(Square(RSub(LocalReconstruction(r \div n_quadrature_points,
                                                       r % n_quadrature_points),
                                   Apply(exact_function, Xq[r]))),
                       JxWq[r])],
              0, M * n_quadrature_points - 1))

(* C15: the error is computed after the solve, from the M*(2*degree+1) points
   Xq, weights JxWq and table Bq of the assembly, none of which changes between
   the assembly and the error computation; the value Bq.dot(u) reconstructs at a
   quadrature point of element k is sum_i u[P[k][i]]*B_i(q), which uses the
   degree+1 coefficients of that element only, and the error is the weighted sum
   of the squared differences to the exact function at those points. *)
C15_Reconstruction ==
    /\ TablesFilled =>
          /\ DOMAIN Xq = 0..(M * (2 * degree + 1) - 1)
          /\ DOMAIN JxWq = DOMAIN Xq /\ DOMAIN Bq = DOMAIN Xq
          /\ \A k \in 0..(M - 1), j \in 0..(2 * degree) :
                Xq[QuadratureRow(k, j)] = mapping(vertices, k, q[j])
    /\ Solved =>
          \A k \in 0..(M - 1), j \in 0..(2 * degree) :
             dot(Bq, u)[QuadratureRow(k, j)] = LocalReconstruction(k, j)
    /\ pc = "return" => error = Value(LocalL2Error)
    /\ error.set => "u" \in built

C15_TablesKept ==
    /\ (FrameKept /\ TablesFilled) => Xq' = Xq /\ JxWq' = JxWq /\ Bq' = Bq
    /\ (FrameKept /\ error' # error) => pc = "error" /\ "u" \in built

C15_ErrorAfterSolveOnAssemblyTables == []C15_Reconstruction /\ [][C15_TablesKept]_vars

(* piecewise linear interpolation of x^2 on two elements of [0, 2]: a non-zero
   error, reconstructed from 6 quadrature points *)
C15_Witness ==
    /\ pc = "return" /\ M = 2 /\ degree = 1 /\ a = 0 /\ b = 2
    /\ exact_function = "sq" /\ rhs_function = "zero"
    /\ Len0(Xq) = 6
    /\ error.set /\ ~error.nan /\ error.radicand # Zero
    /\ error = Value(LocalL2Error)
    /\ dot(Bq, u)[QuadratureRow(1, 1)] = LocalReconstruction(1, 1)
    /\ LocalReconstruction(1, 1) # Zero

-----------------------------------------------------------------------------
(* the physical quadrature points: the images F_k(q[j]) of the reference nodes *)
QuadraturePoints ==
    {mapping(vertices, k, q[j]) : k \in 0..(M - 1), j \in 0..(n_quadrature_points - 1)}

(* C16: in every call the rhs function is evaluated only at the physical
   quadrature points F_k(q[j]), k in [0, M); the exact function is evaluated
   only at the two boundary points a and b and at those same quadrature points;
   neither is evaluated before the tables of quadrature points exist. *)
C16_EvaluationPoints ==
    IF TablesFilled
    THEN /\ rhs_function_at \subseteq QuadraturePoints
         /\ exact_function_at \subseteq (QuadraturePoints \cup {Rat(a), Rat(b)})
    ELSE rhs_function_at = {} /\ exact_function_at = {}

(* two elements on [1, 2]: the reference nodes themselves are not evaluation
   points *)
C16_Witness ==
    /\ pc = "return" /\ M = 2 /\ degree = 1 /\ a = 1 /\ b = 2
    /\ rhs_function_at = QuadraturePoints
    /\ exact_function_at = QuadraturePoints \cup {Rat(1), Rat(2)}
    /\ Cardinality(rhs_function_at) >= 3
    /\ q[0] \notin rhs_function_at /\ q[0] \notin exact_function_at

-----------------------------------------------------------------------------
(* C17: in a call with M >= 1 and degree >= 1 no assertion fails: every index
   fem passes to mapping and mapping_J satisfies 0 <= i < len(q)-1, every index
   it passes to lagrange_basis, directly or through lagrange_basis_derivative,
   satisfies 0 <= i < len(q), and P.max() == N-1. *)
C17_NoAssertionFails ==
    (M >= 1 /\ degree >= 1) =>
        /\ failure # "AssertionError"
        /\ "ref_vertices" \in built =>
              \A i \in 0..degree : lagrange_basis_assert(ref_vertices, i)
        /\ "vertices" \in built =>
              \A k \in 0..(M - 1) : mapping_assert(vertices, k)
        /\ NumberingDone => PMax(P) = N - 1

(* a call with three elements of degree 2 that went through every assertion *)
C17_Witness ==
    /\ pc = "return" /\ M = 3 /\ degree = 2 /\ failure = "none"
    /\ PMax(P) = 6 /\ N = 7
    /\ mapping_assert(vertices, 2) /\ ~mapping_assert(vertices, 3)
    /\ lagrange_basis_assert(ref_vertices, 2) /\ ~lagrange_basis_assert(ref_vertices, 3)

====
